---------------------------- MODULE Spec2Model ----------------------------
(***************************************************************************)
(* A model of the Car Showroom backend (src/backend/app.py): the JSON-file *)
(* record stores (cars, bookings), the handlers that read-modify-write     *)
(* them, the get_cars filter and the booking validator.                    *)
(*                                                                         *)
(* Python strings are sequences of one-character strings, so that strip,   *)
(* lower, replace, isdigit and the substring test are computed and not     *)
(* assumed.  A JSON object is a function from its keys to its values; a    *)
(* key the object does not hold is outside the function's DOMAIN.          *)
(***************************************************************************)
EXTENDS Integers, Sequences, FiniteSets, TLC

VARIABLES
    disk,   \* the data files: store name -> [st, recs]
    last,   \* the last request served and its response
    issued, \* store name -> the largest id an accepted create allocated
    proc,   \* the requests in flight (concurrent handlers): their locals
    order   \* the requests in flight, in the order their saves completed

vars == <<disk, last, issued, proc, order>>

-----------------------------------------------------------------------------
(* Bounds of the model.                                                    *)

\* The longest collection a create is applied to.
MaxRecs == 2

\* The largest id a request path or an add_car payload names.
MaxId == 3

(* Program constants.                                                      *)

\* app.py:66, len(phone) != 10
PhoneDigits == 10

-----------------------------------------------------------------------------
(* Python's str operations, on sequences of characters.                    *)

Whitespace == {" ", "\t"}

Digits == {"0", "1", "7"}

\* str.lower(), on the letters the model uses
LowerChar(c) ==
    CASE c = "A" -> "a"
      [] c = "B" -> "b"
      [] OTHER -> c

Lower(s) == [i \in 1..Len(s) |-> LowerChar(s[i])]

RECURSIVE LStrip(_)
LStrip(s) ==
    IF s # <<>> /\ Head(s) \in Whitespace THEN LStrip(Tail(s)) ELSE s

RECURSIVE RStrip(_)
RStrip(s) ==
    IF s # <<>> /\ s[Len(s)] \in Whitespace
    THEN RStrip(SubSeq(s, 1, Len(s) - 1))
    ELSE s

\* str.strip()
Strip(s) == RStrip(LStrip(s))

\* str.replace(c, '')
RECURSIVE Remove(_, _)
Remove(s, c) ==
    IF s = <<>> THEN <<>>
    ELSE IF Head(s) = c THEN Remove(Tail(s), c)
    ELSE <<Head(s)>> \o Remove(Tail(s), c)

\* str.isdigit(): false on the empty string
IsDigit(s) == s # <<>> /\ \A i \in 1..Len(s) : s[i] \in Digits

\* c in s, for a character c
HasChar(s, c) == \E i \in 1..Len(s) : s[i] = c

\* sub in s, for a string sub (the empty string is in every string)
Contains(s, sub) ==
    \E i \in 0..(Len(s) - Len(sub)) : SubSeq(s, i + 1, i + Len(sub)) = sub

\* n copies of the character c
Rep(c, n) == [i \in 1..n |-> c]

\* `field in data`
Has(data, field) == field \in DOMAIN data

\* The JSON object {}
EmptyObject == [k \in {} |-> k]

-----------------------------------------------------------------------------
(* validate_booking_data (app.py:49-69).                                   *)

required_fields ==
    <<"name", "email", "phone", "carModel", "preferredDate", "preferredTime">>

RequiredMsg(field) == field \o " is required"

\* app.py:54-56: the fields the first loop reports
MissingFields(data) ==
    {required_fields[i] : i \in
        {j \in 1..Len(required_fields) :
            \/ ~Has(data, required_fields[j])
            \/ Strip(data[required_fields[j]]) = <<>>}}

\* app.py:59-61
BadEmail(data) == Has(data, "email") /\ ~HasChar(data["email"], "@")

\* app.py:65
StrippedPhone(data) == Remove(Remove(data["phone"], "-"), " ")

\* app.py:64-67
BadPhone(data) ==
    /\ Has(data, "phone")
    /\ ~(IsDigit(StrippedPhone(data)) /\ Len(StrippedPhone(data)) = PhoneDigits)

\* The errors dict at app.py:69: the later assignments to errors['email'] and
\* errors['phone'] overwrite the loop's.
BookingErrors(data) ==
    [f \in MissingFields(data)
           \cup (IF BadEmail(data) THEN {"email"} ELSE {})
           \cup (IF BadPhone(data) THEN {"phone"} ELSE {}) |->
        IF f = "email" /\ BadEmail(data) THEN "Invalid email format"
        ELSE IF f = "phone" /\ BadPhone(data) THEN "Phone must be 10 digits"
        ELSE RequiredMsg(f)]

\* `return errors if errors else None`
validate_booking_data(data) ==
    LET errors == BookingErrors(data) IN
    IF DOMAIN errors # {} THEN [none |-> FALSE, errors |-> errors]
    ELSE [none |-> TRUE, errors |-> errors]

\* The values a caller may send for each booking field.
TextValues == {<<>>, <<" ", "\t">>, <<" ", "a">>}

EmailValues ==
    {<<>>, <<" ">>, <<"a">>, <<"a", "@", "b">>, <<" ", "@">>}

PhoneValues ==
    { <<>>, <<" ">>, <<"-">>,
      Rep("7", PhoneDigits),
      Rep("7", PhoneDigits - 1),
      Rep("7", PhoneDigits + 1),
      Rep("7", PhoneDigits - 1) \o <<"a">>,
      <<"0", "1", "-">> \o Rep("7", PhoneDigits - 2) \o <<" ">>,
      Rep("7", PhoneDigits) \o <<"\t">> }

BookingFieldValues(k) ==
    CASE k = "email" -> EmailValues
      [] k = "phone" -> PhoneValues
      [] OTHER -> TextValues

\* The forms holding any of the first n required fields.
RECURSIVE FormsOver(_)
FormsOver(n) ==
    IF n = 0 THEN {EmptyObject}
    ELSE LET k == required_fields[n] IN
         FormsOver(n - 1) \cup
         {f @@ (k :> v) : f \in FormsOver(n - 1), v \in BookingFieldValues(k)}

BookingForms == FormsOver(Len(required_fields))

NoFiles == [s \in {"cars", "bookings"} |-> [st |-> "missing", recs |-> <<>>]]

NoneIssued == [s \in {"cars", "bookings"} |-> 0]

\* A form arrives.
InitValidate ==
    /\ disk = NoFiles
    /\ last \in {[op |-> "form", data |-> d] : d \in BookingForms}
    /\ issued = NoneIssued
    /\ proc = <<>>
    /\ order = <<>>

\* The call of validate_booking_data on the form.
Validate ==
    /\ last.op = "form"
    /\ last' = [op |-> "validate", data |-> last.data,
                result |-> validate_booking_data(last.data)]
    /\ UNCHANGED <<disk, issued, proc, order>>

NextValidate == Validate

SpecValidate == InitValidate /\ [][NextValidate]_vars

-----------------------------------------------------------------------------
(* The data files (app.py:29-47).                                          *)

\* A file holding the JSON list recs.
File(recs) == [st |-> "ok", recs |-> recs]

\* No file, and a file that is not valid JSON (an empty or cut-off text).
Missing == [st |-> "missing", recs |-> <<>>]
Corrupt == [st |-> "corrupt", recs |-> <<>>]

\* `return default_data or {}`: the default is returned only when it is
\* truthy, and the default [] the handlers pass is not, so an empty dict {}
\* is returned in its place.
DefaultOr(default_data) ==
    IF default_data.isList /\ default_data.recs # <<>> THEN default_data
    ELSE [isList |-> FALSE, recs |-> <<>>]

\* load_json_file(filepath, default_data): a file that is not there skips
\* the read; a file that is not valid JSON, or that cannot be read, raises
\* into the except clause (st = "corrupt" stands for both).  Either way the
\* last line returns.  The result is a list (isList) or the dict {}.
load_json_file(file, default_data) ==
    IF file.st = "ok" THEN [isList |-> TRUE, recs |-> file.recs]
    ELSE DefaultOr(default_data)

\* The [] the handlers pass as default_data.
EmptyList == [isList |-> TRUE, recs |-> <<>>]

-----------------------------------------------------------------------------
(* get_cars (app.py:167-203).                                              *)

DigitVal(c) == CASE c = "0" -> 0 [] c = "1" -> 1 [] c = "7" -> 7

RECURSIVE Decimal(_)
Decimal(s) ==
    IF s = <<>> THEN 0
    ELSE 10 * Decimal(SubSeq(s, 1, Len(s) - 1)) + DigitVal(s[Len(s)])

\* request.args.get(k, type=int): int(text), and None when int() raises
\* ValueError or the argument is absent.
IntArg(args, k) ==
    IF ~Has(args, k) THEN [none |-> TRUE, val |-> 0]
    ELSE LET t == Strip(args[k])
             signed == t # <<>> /\ Head(t) \in {"-", "+"}
             d == IF signed THEN Tail(t) ELSE t
         IN  IF IsDigit(d)
             THEN [none |-> FALSE,
                   val |-> IF signed /\ Head(t) = "-" THEN -Decimal(d)
                           ELSE Decimal(d)]
             ELSE [none |-> TRUE, val |-> 0]

\* request.args.get(k): the text, or None (here: the falsy empty text; the
\* handler only tests the value's truth before using it)
StrArg(args, k) == IF Has(args, k) THEN args[k] ELSE <<>>

\* `if min_price:` / `if max_price:`: None and 0 are both falsy
IntTruthy(v) == ~v.none /\ v.val # 0

\* `if brand:` ...: None and '' are both falsy
StrTruthy(v) == v # <<>>

\* One `[c for c in filtered_cars if c[key].lower() == value.lower()]`
FilterEq(cars, key, value) ==
    IF StrTruthy(value)
    THEN SelectSeq(cars, LAMBDA c : Lower(c[key]) = Lower(value))
    ELSE cars

FilterMin(cars, min_price) ==
    IF IntTruthy(min_price)
    THEN SelectSeq(cars, LAMBDA c : c["price"] >= min_price.val)
    ELSE cars

FilterMax(cars, max_price) ==
    IF IntTruthy(max_price)
    THEN SelectSeq(cars, LAMBDA c : c["price"] <= max_price.val)
    ELSE cars

FilterSearch(cars, search) ==
    IF StrTruthy(search)
    THEN SelectSeq(cars, LAMBDA c : \/ Contains(Lower(c["model"]), search)
                                    \/ Contains(Lower(c["brand"]), search))
    ELSE cars

\* The response of GET /api/cars on the loaded collection.
get_cars(cars, args) ==
    LET f1 == FilterEq(cars, "brand", StrArg(args, "brand"))
        f2 == FilterEq(f1, "segment", StrArg(args, "segment"))
        f3 == FilterEq(f2, "fuelType", StrArg(args, "fuelType"))
        f4 == FilterEq(f3, "transmission", StrArg(args, "transmission"))
        f5 == FilterMin(f4, IntArg(args, "minPrice"))
        f6 == FilterMax(f5, IntArg(args, "maxPrice"))
        filtered_cars == FilterSearch(f6, Lower(StrArg(args, "search")))
    IN  [status |-> "success", count |-> Len(filtered_cars),
         data |-> filtered_cars]

\* The longest collection a query is run on.
MaxCars == 2

\* The cars the queried collections are made of.
QueryCars ==
    { [id |-> 1, brand |-> <<"A", "b">>, model |-> <<"a">>, price |-> 7,
       segment |-> <<"A">>, fuelType |-> <<"a">>, transmission |-> <<"b">>],
      [id |-> 2, brand |-> <<"A", "b">>, model |-> <<"B", "a">>, price |-> 1,
       segment |-> <<"b">>, fuelType |-> <<"b">>, transmission |-> <<"b">>],
      [id |-> 3, brand |-> <<"b">>, model |-> <<"a", "b">>, price |-> 0,
       segment |-> <<"a">>, fuelType |-> <<"a">>, transmission |-> <<"a">>],
      [id |-> 4, brand |-> <<"a">>, model |-> <<"b">>, price |-> 1,
       segment |-> <<"a">>, fuelType |-> <<"b">>, transmission |-> <<"A">>] }

Collections(S, n) == UNION {[1..k -> S] : k \in 0..n}

ArgNames ==
    <<"brand", "segment", "fuelType", "transmission", "minPrice", "maxPrice",
      "search">>

\* The texts a query string may carry for each argument.
ArgValues(k) ==
    CASE k = "brand" -> {<<>>, <<"a", "B">>}
      [] k = "segment" -> {<<"a">>}
      [] k = "fuelType" -> {<<"A">>}
      [] k = "transmission" -> {<<"b">>}
      [] k = "minPrice" -> {<<"0">>, <<"1">>, <<"-", "1">>}
      [] k = "maxPrice" -> {<<"0">>, <<"1">>, <<"x">>}
      [] k = "search" -> {<<>>, <<"B">>, <<"b", "a">>}

RECURSIVE QueriesOver(_)
QueriesOver(n) ==
    IF n = 0 THEN {EmptyObject}
    ELSE LET k == ArgNames[n] IN
         QueriesOver(n - 1) \cup
         {q @@ (k :> v) : q \in QueriesOver(n - 1), v \in ArgValues(k)}

Queries == QueriesOver(Len(ArgNames))

\* A query arrives; cars.json holds some collection.
InitQuery ==
    /\ \E cars \in Collections(QueryCars, MaxCars) :
           disk = [NoFiles EXCEPT !["cars"] = File(cars)]
    /\ last \in {[op |-> "query", args |-> q] : q \in Queries}
    /\ issued = NoneIssued
    /\ proc = <<>>
    /\ order = <<>>

\* The handler of GET /api/cars.
GetCars ==
    /\ last.op = "query"
    /\ LET cars == load_json_file(disk["cars"], EmptyList) IN
       last' = [op |-> "get_cars", args |-> last.args,
                response |-> get_cars(cars.recs, last.args)]
    /\ UNCHANGED <<disk, issued, proc, order>>

NextQuery == GetCars

SpecQuery == InitQuery /\ [][NextQuery]_vars

-----------------------------------------------------------------------------
(* The stores and their handlers (app.py:216-279, 308-387).                *)

Stores == {"cars", "bookings"}

\* save_json_file(filepath, data): open(filepath, 'w') truncates the file
\* before json.dump writes it.  outcome is "ok", "open" (open() raises
\* IOError: the file is untouched) or "write" (the dump or the closing flush
\* raises IOError: the file is left empty or cut off, which is not valid
\* JSON).  Returns the file and the boolean the caller gets.
save_json_file(file, data, outcome) ==
    CASE outcome = "ok" -> [file |-> File(data), ok |-> TRUE]
      [] outcome = "open" -> [file |-> file, ok |-> FALSE]
      [] outcome = "write" -> [file |-> Corrupt, ok |-> FALSE]

SaveOutcomes == {"ok", "open", "write"}

SetMax(S) == CHOOSE m \in S : \A x \in S : x <= m

\* max([...], default=0)
MaxDefault0(S) == IF S = {} THEN 0 ELSE SetMax(S)

\* [c['id'] for c in cars]; bookings read b.get('id', 0)
IdsOf(recs) ==
    {IF Has(recs[i], "id") THEN recs[i]["id"] ELSE 0 : i \in 1..Len(recs)}

\* max([c['id'] for c in cars], default=0) + 1
NextId(recs) == MaxDefault0(IdsOf(recs)) + 1

\* next((c for c in cars if c['id'] == car_id), None): the index of the
\* first record with the id, 0 for None
FirstWithId(recs, id) ==
    IF \E i \in 1..Len(recs) : recs[i]["id"] = id
    THEN CHOOSE i \in 1..Len(recs) :
            /\ recs[i]["id"] = id
            /\ \A j \in 1..(i - 1) : recs[j]["id"] # id
    ELSE 0

\* [c for c in cars if c['id'] != car_id]
WithoutId(recs, id) == SelectSeq(recs, LAMBDA c : c["id"] # id)

\* {'id': new_id, **data, 'addedDate': now}: a later key replaces an
\* earlier one, so an id in data replaces new_id
NewCar(new_id, data, now) ==
    ("addedDate" :> now) @@ data @@ ("id" :> new_id)

car_required_fields ==
    {"brand", "model", "price", "segment", "fuelType", "transmission"}

\* What a handler leaves: the status code, the record under 'data' (an empty
\* object when there is none) and the file; save is how save_json_file went,
\* "skipped" when the handler returned or raised before calling it.
Response(code, rec, file, save) ==
    [code |-> code, rec |-> rec, file |-> file, save |-> save]

\* POST /api/cars
add_car(file, data, now, outcome) ==
    IF data = EmptyObject THEN Response(400, EmptyObject, file, "skipped")
    ELSE IF ~(car_required_fields \subseteq DOMAIN data)
    THEN Response(400, EmptyObject, file, "skipped")
    ELSE LET cars == load_json_file(file, EmptyList)
             new_car == NewCar(NextId(cars.recs), data, now)
         IN  IF ~cars.isList
             THEN \* {}.append raises AttributeError
                  Response(500, EmptyObject, file, "skipped")
             ELSE LET saved == save_json_file(file, Append(cars.recs, new_car),
                                              outcome)
                  IN  IF saved.ok THEN Response(201, new_car, saved.file, outcome)
                      ELSE Response(500, EmptyObject, saved.file, outcome)

\* The merge without the `if key != 'id'` guard.
MergeCarWithId(car, data, now) ==
    ("updatedDate" :> now) @@ data @@ car

\* The loop of app.py:259-263 on the record car
MergeCar(car, data, now) ==
    ("updatedDate" :> now) @@
    [k \in DOMAIN data \ {"id"} |-> data[k]] @@ car

\* PUT /api/cars/<car_id>
update_car(file, car_id, data, now, outcome) ==
    LET cars == load_json_file(file, EmptyList)
        i == FirstWithId(cars.recs, car_id)
    IN  IF i = 0 THEN Response(404, EmptyObject, file, "skipped")
        ELSE IF data = EmptyObject THEN Response(400, EmptyObject, file, "skipped")
        ELSE LET car == MergeCar(cars.recs[i], data, now)
                 saved == save_json_file(file, [cars.recs EXCEPT ![i] = car],
                                         outcome)
             IN  IF saved.ok THEN Response(200, car, saved.file, outcome)
                 ELSE Response(500, EmptyObject, saved.file, outcome)

\* A delete that answers not-found, as get and update do, when no record
\* has the id.
delete_record_or_404(file, id, outcome) ==
    LET recs == load_json_file(file, EmptyList)
        saved == save_json_file(file, WithoutId(recs.recs, id), outcome)
    IN  IF FirstWithId(recs.recs, id) = 0
        THEN Response(404, EmptyObject, file, "skipped")
        ELSE IF saved.ok THEN Response(200, EmptyObject, saved.file, outcome)
        ELSE Response(500, EmptyObject, saved.file, outcome)

\* DELETE /api/cars/<car_id> and DELETE /api/bookings/<booking_id>
delete_record(file, id, outcome) ==
    LET recs == load_json_file(file, EmptyList)
        saved == save_json_file(file, WithoutId(recs.recs, id), outcome)
    IN  IF saved.ok THEN Response(200, EmptyObject, saved.file, outcome)
        ELSE Response(500, EmptyObject, saved.file, outcome)

\* data.get('comments', '')
Comments(data) == IF Has(data, "comments") THEN data["comments"] ELSE <<>>

\* app.py:324-335
NewBooking(new_id, data, now) ==
    [id |-> new_id,
     name |-> Strip(data["name"]),
     email |-> Strip(data["email"]),
     phone |-> Strip(data["phone"]),
     carModel |-> data["carModel"],
     preferredDate |-> data["preferredDate"],
     preferredTime |-> data["preferredTime"],
     comments |-> Strip(Comments(data)),
     bookingDate |-> now,
     status |-> "pending"]

\* POST /api/bookings
create_booking(file, data, now, outcome) ==
    IF data = EmptyObject THEN Response(400, EmptyObject, file, "skipped")
    ELSE IF ~validate_booking_data(data).none
    THEN Response(422, EmptyObject, file, "skipped")
    ELSE LET bookings == load_json_file(file, EmptyList)
             new_booking == NewBooking(NextId(bookings.recs), data, now)
         IN  IF ~bookings.isList THEN Response(500, EmptyObject, file, "skipped")
             ELSE LET saved == save_json_file(
                                   file, Append(bookings.recs, new_booking),
                                   outcome)
                  IN  IF saved.ok THEN Response(201, new_booking, saved.file, outcome)
                      ELSE Response(500, EmptyObject, saved.file, outcome)

\* app.py:369-371: only 'status' is taken from the payload
MergeBooking(booking, data, now) ==
    ("updatedDate" :> now) @@
    [k \in DOMAIN data \cap {"status"} |-> data[k]] @@ booking

\* PUT /api/bookings/<booking_id>
update_booking(file, booking_id, data, now, outcome) ==
    LET bookings == load_json_file(file, EmptyList)
        i == FirstWithId(bookings.recs, booking_id)
    IN  IF i = 0 THEN Response(404, EmptyObject, file, "skipped")
        ELSE LET booking == MergeBooking(bookings.recs[i], data, now)
                 saved == save_json_file(
                              file, [bookings.recs EXCEPT ![i] = booking],
                              outcome)
             IN  IF saved.ok THEN Response(200, booking, saved.file, outcome)
                 ELSE Response(500, EmptyObject, saved.file, outcome)

-----------------------------------------------------------------------------
(* Sequential requests: each handler runs to its response before the next  *)
(* request is served.                                                      *)

\* create_sample_data (app.py:73-143), the fields the handlers read
sample_cars ==
    << [id |-> 1, brand |-> <<"T">>, model |-> <<"N">>, price |-> 1450000,
        segment |-> <<"S">>, fuelType |-> <<"E">>, transmission |-> <<"A">>],
       [id |-> 2, brand |-> <<"T">>, model |-> <<"P">>, price |-> 549000,
        segment |-> <<"H">>, fuelType |-> <<"P">>, transmission |-> <<"M">>],
       [id |-> 3, brand |-> <<"M">>, model |-> <<"X">>, price |-> 1210000,
        segment |-> <<"S">>, fuelType |-> <<"P">>, transmission |-> <<"A">>] >>

sample_bookings == <<>>

\* The ids a request path or an add_car payload may name.
RequestIds == 1..MaxId

\* datetime.now().isoformat(): the handlers store the reading and never
\* read it, so one reading stands for all; it differs from the 0 a caller
\* sends under 'updatedDate'.
Clock == {1}

CarForm ==
    [brand |-> <<"a">>, model |-> <<"b">>, price |-> 7, segment |-> <<"a">>,
     fuelType |-> <<"a">>, transmission |-> <<"a">>]

\* The bodies of POST /api/cars: complete, with an id of the caller's,
\* with a field missing, empty.
CarPosts ==
    {CarForm, [brand |-> <<"a">>, price |-> 7], EmptyObject}
        \cup {CarForm @@ ("id" :> k) : k \in RequestIds}

\* The bodies of PUT /api/cars/<id>: a known field, an unknown one, an id
\* that is no record's, a stamp of the caller's; and the empty object.
CarPuts ==
    {[id |-> MaxId + 1, price |-> 1, colour |-> <<"a">>, updatedDate |-> 0],
     EmptyObject}

BookingForm ==
    [name |-> <<" ", "a">>, email |-> <<"a", "@", "b">>,
     phone |-> Rep("7", PhoneDigits), carModel |-> <<"a">>,
     preferredDate |-> <<"a">>, preferredTime |-> <<"a">>]

\* The bodies of POST /api/bookings.
BookingPosts ==
    {BookingForm @@ ("comments" :> <<"a", " ">>),
     [name |-> <<"a">>, email |-> <<"a">>], EmptyObject}

\* The bodies of PUT /api/bookings/<id>.
BookingPuts ==
    {[id |-> MaxId + 1, status |-> "confirmed", name |-> <<"b">>,
      updatedDate |-> 0],
     EmptyObject}

\* The data files when the server starts: written by create_sample_data, or
\* not there (the module is served without its __main__ block).  No handler
\* of one store reads or writes the other store's file, so requests to the
\* two stores commute; a behaviour follows the requests to one store,
\* last.store.
Init ==
    /\ disk \in [Stores -> {Missing}] \cup
                {[cars |-> File(sample_cars), bookings |-> File(sample_bookings)]}
    /\ last \in {[op |-> "none", store |-> s] : s \in Stores}
    /\ issued = NoneIssued
    /\ proc = <<>>
    /\ order = <<>>

\* What a request leaves behind: the file, and the record of the request:
\* its response, the file before it (pre), the id a create allocated, the
\* largest id allocated before it (issued), and whether it repeats a
\* successful delete of the same id (again).
Served(op, s, id, data, r, new_id) ==
    /\ disk' = [disk EXCEPT ![s] = r.file]
    /\ last' = [op |-> op, store |-> s, id |-> id, data |-> data,
                code |-> r.code, rec |-> r.rec, save |-> r.save,
                pre |-> disk[s], new_id |-> new_id, issued |-> issued[s],
                again |-> /\ op = "delete"
                          /\ last.op = "delete"
                          /\ last.id = id
                          /\ last.code = 200]
    /\ issued' = IF op = "create" /\ r.code = 201 /\ new_id > issued[s]
                 THEN [issued EXCEPT ![s] = new_id]
                 ELSE issued
    /\ UNCHANGED <<proc, order>>

\* The id the create allocates from what it loads.
Allocated(s) ==
    NextId(load_json_file(disk[s], EmptyList).recs)

AddCar ==
    \E data \in CarPosts, now \in Clock, outcome \in SaveOutcomes :
        /\ last.store = "cars"
        /\ Len(disk["cars"].recs) < MaxRecs
        /\ Served("create", "cars", 0, data,
                  add_car(disk["cars"], data, now, outcome),
                  Allocated("cars"))

UpdateCar ==
    \E car_id \in RequestIds, data \in CarPuts, now \in Clock,
       outcome \in SaveOutcomes :
        /\ last.store = "cars"
        /\ Served("update", "cars", car_id, data,
                  update_car(disk["cars"], car_id, data, now, outcome), 0)

DeleteCar ==
    \E car_id \in RequestIds, outcome \in SaveOutcomes :
        /\ last.store = "cars"
        /\ Served("delete", "cars", car_id, EmptyObject,
                  delete_record(disk["cars"], car_id, outcome), 0)

CreateBooking ==
    \E data \in BookingPosts, now \in Clock, outcome \in SaveOutcomes :
        /\ last.store = "bookings"
        /\ Len(disk["bookings"].recs) < MaxRecs
        /\ Served("create", "bookings", 0, data,
                  create_booking(disk["bookings"], data, now, outcome),
                  Allocated("bookings"))

UpdateBooking ==
    \E booking_id \in RequestIds, data \in BookingPuts, now \in Clock,
       outcome \in SaveOutcomes :
        /\ last.store = "bookings"
        /\ Served("update", "bookings", booking_id, data,
                  update_booking(disk["bookings"], booking_id, data, now,
                                 outcome),
                  0)

DeleteBooking ==
    \E booking_id \in RequestIds, outcome \in SaveOutcomes :
        /\ last.store = "bookings"
        /\ Served("delete", "bookings", booking_id, EmptyObject,
                  delete_record(disk["bookings"], booking_id, outcome), 0)

Next ==
    \/ AddCar
    \/ UpdateCar
    \/ DeleteCar
    \/ CreateBooking
    \/ UpdateBooking
    \/ DeleteBooking

Spec == Init /\ [][Next]_vars

-----------------------------------------------------------------------------
(* Concurrent creates (the server handles requests in threads): the steps  *)
(* of add_car and create_booking that touch the file, with no lock around  *)
(* them.  The requests address the store last.store.                       *)

Procs == {"A", "B"}

\* The bodies of the concurrent POSTs.
ConcPosts(s) ==
    IF s = "cars" THEN {CarForm, [CarForm EXCEPT !["price"] = 1], EmptyObject}
    ELSE {BookingForm, BookingForm @@ ("comments" :> <<"a">>), EmptyObject}

\* The status the handler returns before it loads the file, 0 when the
\* payload passes (app.py:221-227, 313-319).
CheckCode(s, data) ==
    IF data = EmptyObject THEN 400
    ELSE IF s = "cars"
    THEN (IF car_required_fields \subseteq DOMAIN data THEN 0 ELSE 400)
    ELSE (IF validate_booking_data(data).none THEN 0 ELSE 422)

\* new_car / new_booking
NewRecord(s, new_id, data, now) ==
    IF s = "cars" THEN NewCar(new_id, data, now)
    ELSE NewBooking(new_id, data, now)

Idle ==
    [pc |-> "idle", loaded |-> <<>>, rec |-> EmptyObject, new_id |-> 0,
     code |-> 0, early |-> FALSE, raced |-> FALSE]

InitConc ==
    /\ disk \in [Stores -> {Missing}] \cup
                {[cars |-> File(sample_cars), bookings |-> File(sample_bookings)]}
    /\ last \in {[op |-> "none", store |-> s] : s \in Stores}
    /\ issued = NoneIssued
    /\ proc = [p \in Procs |-> Idle]
    /\ order = <<>>

\* No request has opened the file for writing yet.
NoSaveBegun ==
    /\ order = <<>>
    /\ \A q \in Procs : proc[q].pc # "opened"

\* The handler up to cars.append(new_car): the checks, the load, the id.
ConcLoad(p) ==
    /\ proc[p].pc = "idle"
    /\ \E data \in ConcPosts(last.store), now \in Clock :
         LET s == last.store
             cars == load_json_file(disk[s], EmptyList)
             new_id == NextId(cars.recs)
         IN  proc' = [proc EXCEPT ![p] =
                 IF CheckCode(s, data) # 0
                 THEN [@ EXCEPT !.pc = "done", !.code = CheckCode(s, data)]
                 ELSE IF ~cars.isList
                 THEN [@ EXCEPT !.pc = "done", !.code = 500]
                 ELSE [@ EXCEPT !.pc = "loaded", !.loaded = cars.recs,
                                !.new_id = new_id,
                                !.rec = NewRecord(s, new_id, data, now),
                                !.early = NoSaveBegun]]
    /\ UNCHANGED <<disk, last, issued, order>>

\* The list a request saves, appended to the collection it loaded, as if
\* appended to what the file holds when it is written.
ConcAppendedToFile(p) == Append(disk[last.store].recs, proc[p].rec)

\* cars.append(new_car): the list the request saves
ConcAppended(p) == Append(proc[p].loaded, proc[p].rec)

\* open(filepath, 'w') in save_json_file: the file is truncated
ConcOpen(p) ==
    /\ proc[p].pc = "loaded"
    /\ disk' = [disk EXCEPT ![last.store] = Corrupt]
    /\ proc' = [proc EXCEPT ![p].pc = "opened", ![p].raced = FALSE]
    /\ UNCHANGED <<last, issued, order>>

\* json.dump and the close in save_json_file, then the 201.  The text goes
\* to the start of the file; when another request wrote since this one
\* opened, a longer text of that request keeps its tail, and the file is
\* not valid JSON.
ConcWrite(p) ==
    /\ proc[p].pc = "opened"
    /\ \E clean \in BOOLEAN :
         /\ clean \/ proc[p].raced
         /\ disk' = [disk EXCEPT ![last.store] =
                        IF clean THEN File(ConcAppended(p)) ELSE Corrupt]
    /\ proc' = [q \in Procs |->
                  IF q = p THEN [proc[q] EXCEPT !.pc = "done", !.code = 201]
                  ELSE IF proc[q].pc = "opened"
                  THEN [proc[q] EXCEPT !.raced = TRUE]
                  ELSE proc[q]]
    /\ order' = Append(order, p)
    /\ UNCHANGED <<last, issued>>

NextConc ==
    \E p \in Procs :
        \/ ConcLoad(p)
        \/ ConcOpen(p)
        \/ ConcWrite(p)

SpecConc == InitConc /\ [][NextConc]_vars

-----------------------------------------------------------------------------
(* The stores' contracts, on sequential requests.                          *)

\* The store the last request addressed, as it is now.
Now == disk[last.store]

Accepted == last.code \in {200, 201}

\* C1: no two records of a store have the same id, and every record has an
\* id, in every state that sequential create, update and delete requests
\* reach from the sample data or from no data.
C1_IdsUnique ==
    \A s \in Stores :
        LET recs == disk[s].recs IN
        /\ \A i \in 1..Len(recs) : Has(recs[i], "id")
        /\ \A i, j \in 1..Len(recs) : recs[i]["id"] = recs[j]["id"] => i = j

\* C2: an accepted create on a store whose largest id is N (0 when it is
\* empty) appends and returns a record with id N + 1, whatever the payload.
C2_CreateTakesNextId ==
    (last.op = "create" /\ last.code = 201) =>
        /\ last.rec["id"] = MaxDefault0(IdsOf(last.pre.recs)) + 1
        /\ Now = File(Append(last.pre.recs, last.rec))

\* C5: a delete reports success whenever its write succeeds, whether or not
\* a record has the id; after it no record has the id and the other records
\* are kept in their order; a second delete of the id reports success as
\* well and leaves the store as it was.
C5_DeleteIdempotent ==
    last.op = "delete" =>
        /\ last.save # "skipped"
        /\ last.code = 200 <=> last.save = "ok"
        /\ last.code = 200 =>
              /\ Now.st = "ok"
              /\ \A i \in 1..Len(Now.recs) : Now.recs[i]["id"] # last.id
              /\ Now.recs = SelectSeq(last.pre.recs,
                                      LAMBDA c : c["id"] # last.id)
        /\ (last.again /\ last.code = 200) => Now = last.pre

\* A second successful delete of an id, from a store that holds records.
C5_Witness ==
    /\ last.op = "delete"
    /\ last.again
    /\ last.code = 200
    /\ Now.recs # <<>>

\* The fields of the payload an update takes over.
Merged(s, data) ==
    IF s = "cars" THEN DOMAIN data \ {"id", "updatedDate"}
    ELSE DOMAIN data \cap {"status"}

\* The record the update addressed, before and after.
Target == FirstWithId(last.pre.recs, last.id)

\* C6 as stated: after a successful update every supplied field other than
\* id (and the stamp) holds the supplied value.
C6_EverySuppliedFieldMerged ==
    (last.op = "update" /\ last.code = 200) =>
        \A k \in DOMAIN last.data \ {"id", "updatedDate"} :
            /\ Has(last.rec, k)
            /\ last.rec[k] = last.data[k]

\* C6, amended: a successful update_car sets every supplied field other than
\* id and updatedDate to the supplied value, a successful update_booking
\* only status, its other supplied fields being ignored; the record keeps
\* its id even when the payload holds one, updatedDate holds the time of the
\* update, the fields not taken over keep their values, and the other records
\* are unchanged.  An update of an id the store does not hold answers
\* not-found and leaves the store unchanged.
C6_UpdateMerges ==
    last.op = "update" =>
        /\ last.code = 200 =>
              LET old == last.pre.recs[Target]
                  new == Now.recs[Target]
                  M == Merged(last.store, last.data)
              IN  /\ last.pre.st = "ok" /\ Now.st = "ok" /\ Target # 0
                  /\ Len(Now.recs) = Len(last.pre.recs)
                  /\ last.rec = new
                  /\ new["id"] = last.id
                  /\ DOMAIN new = DOMAIN old \cup M \cup {"updatedDate"}
                  /\ \A k \in M : new[k] = last.data[k]
                  /\ new["updatedDate"] \in Clock
                  /\ \A k \in DOMAIN old \ (M \cup {"updatedDate"}) :
                         new[k] = old[k]
                  /\ \A j \in 1..Len(Now.recs) :
                         j # Target => Now.recs[j] = last.pre.recs[j]
        /\ (last.pre.st # "ok" \/ Target = 0) =>
              /\ last.code = 404
              /\ Now = last.pre

\* A successful update, by a payload that holds an id, of one record of two.
C6_Witness ==
    /\ last.op = "update"
    /\ last.code = 200
    /\ Has(last.data, "id")
    /\ last.data["id"] # last.id
    /\ Len(Now.recs) >= 2

\* The payload passed the handler's checks.
PassedChecks == last.code \notin {400, 422}

\* C7: when the file is missing or not valid JSON, a create whose write
\* succeeds yields a store holding exactly the new record, with id 1.
C7_CreateOnUnreadableFile ==
    ( /\ last.op = "create"
      /\ last.pre.st # "ok"
      /\ PassedChecks
      /\ ~Has(last.data, "id") ) =>
        /\ last.code = 201
        /\ last.rec["id"] = 1
        /\ Now = File(<<last.rec>>)

\* C8: a save that fails leaves the file exactly as it was before the write
\* attempt and the request reports a failure; a save that succeeds leaves
\* the full collection.
C8_NeverPartiallyWritten ==
    last.op \in {"create", "update", "delete"} =>
        /\ last.save \in {"open", "write"} =>
              /\ last.code = 500
              /\ Now = last.pre
        /\ last.save = "ok" => Accepted /\ Now.st = "ok"

\* C10: every id a create allocates is larger than every id an earlier
\* create on the store allocated.
C10_IdsNeverReused ==
    (last.op = "create" /\ last.code = 201) => last.new_id > last.issued

-----------------------------------------------------------------------------
(* The lost update.                                                        *)

\* Both requests saved, and each had loaded before either began to save.
BothLoadedFirst ==
    /\ Len(order) = 2
    /\ \A p \in Procs : proc[p].early

\* C9: when two concurrent creates on a store both load before either
\* saves, both report success, both were allocated the same id, and the
\* file ends up holding the collection they loaded and the record of the
\* second to save only: the record of the first is lost.  (When the two
\* writes themselves overlap, the file may instead be left cut off.)
C9_LostUpdate ==
    BothLoadedFirst =>
        LET first == proc[order[1]]
            second == proc[order[2]]
            file == disk[last.store]
        IN  /\ first.code = 201 /\ second.code = 201
            /\ first.new_id = second.new_id
            /\ first.loaded = second.loaded
            /\ file.st = "ok" =>
                  /\ file.recs = Append(second.loaded, second.rec)
                  /\ Len(file.recs) = Len(first.loaded) + 1
            /\ file.st # "ok" => second.raced

\* Both succeeded with the same id and the first saver's record is not in
\* the file.
C9_Witness ==
    /\ BothLoadedFirst
    /\ disk[last.store].st = "ok"
    /\ proc[order[1]].code = 201 /\ proc[order[2]].code = 201
    /\ proc[order[1]].new_id = proc[order[2]].new_id
    /\ proc[order[1]].loaded # <<>>
    /\ \A i \in 1..Len(disk[last.store].recs) :
           disk[last.store].recs[i] # proc[order[1]].rec

-----------------------------------------------------------------------------
(* The validator's contract.                                               *)

RequiredSet == {required_fields[i] : i \in 1..Len(required_fields)}

\* A required field that is absent or, after trimming, empty.
Blank(data, f) == ~Has(data, f) \/ Strip(data[f]) = <<>>

WellFormedPhone(s) ==
    LET p == Remove(Remove(s, "-"), " ") IN
    /\ Len(p) = PhoneDigits
    /\ \A i \in 1..Len(p) : p[i] \in Digits

FormValid(data) ==
    /\ \A f \in RequiredSet : ~Blank(data, f)
    /\ HasChar(data["email"], "@")
    /\ WellFormedPhone(data["phone"])

\* The fields that violate a rule, each with the message of its rule.
ReportedErrors(data) ==
    [f \in {g \in RequiredSet :
               \/ Blank(data, g)
               \/ g = "email" /\ ~HasChar(data[g], "@")
               \/ g = "phone" /\ ~WellFormedPhone(data[g])} |->
        IF Blank(data, f) THEN f \o " is required"
        ELSE IF f = "email" THEN "Invalid email format"
        ELSE "Phone must be 10 digits"]

\* C4: validate_booking_data returns the no-errors result exactly for the
\* forms whose six required fields are present and non-blank, whose email holds
\* an '@' and whose phone, hyphens and spaces removed, is 10 digits; otherwise
\* the mapping has an entry for every field that violates a rule, reading
\* "<field> is required" for an absent or blank field, "Invalid email format"
\* for an email without '@' and "Phone must be 10 digits" for a malformed phone.
C4_ValidationReport ==
    last.op = "validate" =>
        /\ last.result.none <=> FormValid(last.data)
        /\ ~last.result.none => last.result.errors = ReportedErrors(last.data)

-----------------------------------------------------------------------------
(* The filter's contract.                                                  *)

\* A text criterion is supplied when it is present and not empty.
Supplied(args, k) == Has(args, k) /\ args[k] # <<>>

\* A price bound is supplied when the argument is an integer.
SuppliedInt(args, k) == ~IntArg(args, k).none

EqualsIgnoringCase(a, b) == Lower(a) = Lower(b)

\* The car satisfies every supplied criterion.
Matches(c, args) ==
    /\ \A k \in {"brand", "segment", "fuelType", "transmission"} :
           Supplied(args, k) => EqualsIgnoringCase(c[k], args[k])
    /\ SuppliedInt(args, "minPrice") =>
           c["price"] >= IntArg(args, "minPrice").val
    /\ SuppliedInt(args, "maxPrice") =>
           c["price"] <= IntArg(args, "maxPrice").val
    /\ Supplied(args, "search") =>
           \/ Contains(Lower(c["model"]), Lower(args["search"]))
           \/ Contains(Lower(c["brand"]), Lower(args["search"]))

\* C3: a car of the collection is in the result of get_cars exactly when it
\* satisfies every supplied criterion (equality ignoring case for brand,
\* segment, fuelType and transmission, price within the inclusive integer
\* bounds minPrice and maxPrice, search a substring ignoring case of model
\* or brand), and the reported count is the number of matching cars.
C3_FilterCorrect ==
    last.op = "get_cars" =>
        LET cars == disk["cars"].recs
            data == last.response.data
        IN  /\ \A i \in 1..Len(cars) :
                   (\E j \in 1..Len(data) : data[j] = cars[i])
                       <=> Matches(cars[i], last.args)
            /\ last.response.count =
                   Cardinality({i \in 1..Len(cars) : Matches(cars[i], last.args)})

=============================================================================
